---- MODULE Spec2Model ----
(***************************************************************************)
(* Model of docker/bge-m3-mock/server.py: a Flask application that serves  *)
(* deterministic pseudo-embeddings.                                        *)
(*                                                                         *)
(* Representation.                                                         *)
(*  - A Python str is a sequence of characters; a character is a one-token *)
(*    TLA+ string ("a", "3", ...).  "U+00E9" is the non-ASCII letter       *)
(*    e-acute and "U+D800" is a lone surrogate, which json.loads produces  *)
(*    for the JSON escape \ud800.                                          *)
(*  - A decoded JSON value is a record of one uniform shape (see JVal).    *)
(*  - A float is the numerator of a fraction over Scale = 2^RandomBits     *)
(*    (CPython draws 53 bits; -1.0 + 2.0 * k/2^53 is exact in a double,    *)
(*    so exact fractions lose nothing).                                    *)
(*  - hashlib.sha256 and the Mersenne Twister of random.Random are library *)
(*    code; they are modelled as a deterministic digest of the bytes and a *)
(*    deterministic generator whose state advances with every draw.        *)
(***************************************************************************)
EXTENDS Integers, Sequences, FiniteSets, TLC

(* ------------------------------ bounds --------------------------------- *)

\* Largest explicitly configured EMBEDDING_DIM the model explores.
MaxDim == 2
\* random() is modelled with RandomBits bits of resolution.
RandomBits == 6
\* Width of the modelled digest.
DigestBits == 10

\* The default of os.environ.get("EMBEDDING_DIM", "1024").
DefaultDim == 1024

RECURSIVE Pow2(_)
Pow2(n) == IF n = 0 THEN 1 ELSE 2 * Pow2(n - 1)

Scale == Pow2(RandomBits)

(* ------------------------------ strings -------------------------------- *)

SURR == "U+D800"
EACUTE == "U+00E9"

\* ord(c)
CodePoint(c) ==
    CASE c = " " -> 32  [] c = "'" -> 39  [] c = "," -> 44  [] c = "-" -> 45
      [] c = "." -> 46
      [] c = "0" -> 48  [] c = "1" -> 49  [] c = "2" -> 50  [] c = "3" -> 51
      [] c = "4" -> 52  [] c = "5" -> 53  [] c = "6" -> 54  [] c = "7" -> 55
      [] c = "8" -> 56  [] c = "9" -> 57  [] c = ":" -> 58
      [] c = "F" -> 70  [] c = "N" -> 78  [] c = "T" -> 84
      [] c = "[" -> 91  [] c = "\\" -> 92 [] c = "]" -> 93
      [] c = "a" -> 97  [] c = "b" -> 98  [] c = "c" -> 99  [] c = "d" -> 100
      [] c = "e" -> 101 [] c = "l" -> 108 [] c = "n" -> 110 [] c = "o" -> 111
      [] c = "r" -> 114 [] c = "s" -> 115 [] c = "u" -> 117
      [] c = "{" -> 123 [] c = "}" -> 125
      [] c = EACUTE -> 233
      [] c = SURR -> 55296

Digits == <<"0", "1", "2", "3", "4", "5", "6", "7", "8", "9">>

RECURSIVE NatToStr(_)
NatToStr(n) ==
    IF n < 10 THEN <<Digits[n + 1]>>
    ELSE NatToStr(n \div 10) \o <<Digits[(n % 10) + 1]>>

\* str(n) of a Python int
IntToStr(n) == IF n < 0 THEN <<"-">> \o NatToStr(-n) ELSE NatToStr(n)

(* ---------------------------- JSON values ------------------------------ *)

\* One shape for every decoded value: t is the Python type, b / n / s /
\* items / ents hold the value of a bool / int / str / list / dict.
JVal(t, b, n, s, items, ents) ==
    [t |-> t, b |-> b, n |-> n, s |-> s, items |-> items, ents |-> ents]

JNone == JVal("NoneType", FALSE, 0, <<>>, <<>>, <<>>)
JBool(b) == JVal("bool", b, 0, <<>>, <<>>, <<>>)
JInt(n) == JVal("int", FALSE, n, <<>>, <<>>, <<>>)
JStr(s) == JVal("str", FALSE, 0, s, <<>>, <<>>)
JList(items) == JVal("list", FALSE, 0, <<>>, items, <<>>)
\* ents is a sequence of [k |-> key string, v |-> value], keys distinct
JDict(ents) == JVal("dict", FALSE, 0, <<>>, <<>>, ents)

Ent(k, v) == [k |-> k, v |-> v]

\* bool(v): Python truthiness, as used by `x or {}`
Truthy(v) ==
    CASE v.t = "NoneType" -> FALSE
      [] v.t = "bool" -> v.b
      [] v.t = "int" -> v.n # 0
      [] v.t = "str" -> v.s # <<>>
      [] v.t = "list" -> v.items # <<>>
      [] v.t = "dict" -> v.ents # <<>>

RECURSIVE JoinComma(_)
JoinComma(parts) ==
    IF parts = <<>> THEN <<>>
    ELSE IF Len(parts) = 1 THEN parts[1]
    ELSE parts[1] \o <<",", " ">> \o JoinComma(Tail(parts))

\* repr(c) of one character inside a str repr
CharRepr(c) ==
    IF c = SURR THEN <<"\\", "u", "d", "8", "0", "0">> ELSE <<c>>

RECURSIVE StrReprBody(_)
StrReprBody(s) ==
    IF s = <<>> THEN <<>> ELSE CharRepr(Head(s)) \o StrReprBody(Tail(s))

\* repr(v): str(list) and str(dict) apply repr to the members
RECURSIVE repr(_)
repr(v) ==
    CASE v.t = "NoneType" -> <<"N", "o", "n", "e">>
      [] v.t = "bool" -> IF v.b THEN <<"T", "r", "u", "e">>
                                ELSE <<"F", "a", "l", "s", "e">>
      [] v.t = "int" -> IntToStr(v.n)
      [] v.t = "str" -> <<"'">> \o StrReprBody(v.s) \o <<"'">>
      [] v.t = "list" ->
            <<"[">> \o JoinComma([i \in 1..Len(v.items) |-> repr(v.items[i])])
                    \o <<"]">>
      [] v.t = "dict" ->
            <<"{">> \o JoinComma([i \in 1..Len(v.ents) |->
                          repr(JStr(v.ents[i].k)) \o <<":", " ">>
                              \o repr(v.ents[i].v)])
                    \o <<"}">>

\* str(v)
str(v) == IF v.t = "str" THEN v.s ELSE repr(v)

(* ------------------------- library: int(), env ------------------------- *)

IsDigit(c) == \E i \in 1..10 : Digits[i] = c

DigitVal(c) == (CHOOSE i \in 1..10 : Digits[i] = c) - 1

RECURSIVE Strip(_)
Strip(s) ==
    IF s = <<>> THEN s
    ELSE IF Head(s) = " " THEN Strip(Tail(s))
    ELSE IF s[Len(s)] = " " THEN Strip(SubSeq(s, 1, Len(s) - 1))
    ELSE s

RECURSIVE DigitsToNat(_)
DigitsToNat(s) ==
    IF s = <<>> THEN 0
    ELSE 10 * DigitsToNat(SubSeq(s, 1, Len(s) - 1)) + DigitVal(s[Len(s)])

\* int(s) of a str: optional surrounding blanks, optional sign, at least one
\* digit; anything else raises ValueError.
ParseInt(s) ==
    LET t == Strip(s)
        signed == t # <<>> /\ Head(t) \in {"-", "+"}
        ds == IF signed THEN Tail(t) ELSE t
        ok == ds # <<>> /\ \A i \in 1..Len(ds) : IsDigit(ds[i])
    IN  IF ~ok THEN [raised |-> "ValueError", n |-> 0]
        ELSE [raised |-> "",
              n |-> IF signed /\ Head(t) = "-" THEN -DigitsToNat(ds)
                    ELSE DigitsToNat(ds)]

\* The process environment: EMBEDDING_DIM is unset, or set to a string.
EnvUnset == [set |-> FALSE, val |-> <<>>]
EnvSet(s) == [set |-> TRUE, val |-> s]

\* os.environ.get(name, default)
EnvGet(env, default) == IF env.set THEN env.val ELSE default

EnvValues ==
    {EnvUnset, EnvSet(<<"a", "b", "c">>), EnvSet(<<"1", ".", "5">>)}
        \cup {EnvSet(IntToStr(n)) : n \in {-1, 0, MaxDim}}

(* ----------------------- library: hashing, random ---------------------- *)

\* str.encode("utf-8"), error handler "strict": a surrogate code point has
\* no UTF-8 encoding and raises UnicodeEncodeError.
EncodeChar(c) ==
    LET cp == CodePoint(c)
    IN  IF cp < 128 THEN <<cp>>
        ELSE IF cp < 2048 THEN <<192 + (cp \div 64), 128 + (cp % 64)>>
        ELSE <<224 + (cp \div 4096), 128 + ((cp \div 64) % 64), 128 + (cp % 64)>>

IsSurrogate(c) == CodePoint(c) >= 55296 /\ CodePoint(c) <= 57343

RECURSIVE EncodeAll(_)
EncodeAll(s) == IF s = <<>> THEN <<>> ELSE EncodeChar(Head(s)) \o EncodeAll(Tail(s))

encode_utf8(s) ==
    IF \E i \in 1..Len(s) : IsSurrogate(s[i])
    THEN [raised |-> "UnicodeEncodeError", bytes |-> <<>>]
    ELSE [raised |-> "", bytes |-> EncodeAll(s)]

\* int(hashlib.sha256(bytes).hexdigest(), 16): a digest that is a function
\* of the bytes alone (modelled width DigestBits instead of 256).
RECURSIVE sha256_int(_)
sha256_int(bytes) ==
    IF bytes = <<>> THEN 7
    ELSE (31 * sha256_int(SubSeq(bytes, 1, Len(bytes) - 1)) + bytes[Len(bytes)] + 1)
            % Pow2(DigestBits)

\* A generator state: the seed it was created from and the number of draws
\* made from it so far.
RngState(key, n) == [key |-> key, n |-> n]

\* random.Random(seed): a fresh generator object, private to the caller
Random(seed) == RngState(seed, 0)

\* The k of the draw k / Scale that rng.random() returns in state st:
\* 0 <= k < Scale.
RandomBitsOf(st) == ((st.key + 1) * (2 * st.n + 3) * 37 + st.n) % Scale

\* Floats are numerators over Scale.
FloatOf(n) == n * Scale

\* random.Random.uniform(a, b): a + (b - a) * self.random()
uniform(a, b, k) == a + ((b - a) * k) \div Scale

\* len(range(n))
RangeLen(n) == IF n < 0 THEN 0 ELSE n

(* --------------------------- request inputs ---------------------------- *)

\* A request body: absent, bytes that are not JSON, or JSON text (given by
\* the value it decodes to).
BodyAbsent == [kind |-> "absent", val |-> JNone]
BodyGarbage == [kind |-> "garbage", val |-> JNone]
BodyJson(v) == [kind |-> "json", val |-> v]

Inputs(v) == JDict(<<Ent(<<"inputs">>, v)>>)

\* Payloads that decode to a JSON object.
ObjectPayloads ==
    { JDict(<<>>),
      JDict(<<Ent(<<"other">>, JStr(<<"a">>))>>),
      Inputs(JStr(<<"a">>)),
      Inputs(JStr(<<>>)),
      Inputs(JStr(<<SURR>>)),
      Inputs(JList(<<JStr(<<"a">>), JStr(<<"b">>), JInt(3)>>)),
      Inputs(JList(<<JStr(<<"a">>), JStr(<<EACUTE>>), JStr(<<"a">>)>>)),
      Inputs(JList(<<JBool(TRUE), JNone, JList(<<JStr(<<SURR>>)>>),
                     JDict(<<Ent(<<"a">>, JInt(-1))>>)>>)),
      Inputs(JInt(42)),
      Inputs(JBool(TRUE)),
      Inputs(JNone),
      Inputs(JDict(<<Ent(<<"a">>, JInt(3))>>)) }

\* Payloads that decode to any other JSON value.
OtherPayloads ==
    { JList(<<JInt(3)>>), JList(<<>>), JStr(<<"a">>), JInt(5), JInt(0),
      JBool(TRUE), JNone }

Bodies ==
    {BodyAbsent, BodyGarbage}
        \cup {BodyJson(v) : v \in ObjectPayloads \cup OtherPayloads}

GetRoutes == {"/health", "/info"}
PostRoutes == {"/embed", "/embed_sparse"}

\* Requests in flight at once (worker threads of the server).  Worker 1
\* serves every body of Bodies; worker 2 serves the concurrent traffic, whose
\* bodies are drawn from BackgroundBodies.
Requests == {1, 2}

BackgroundBodies ==
    { BodyGarbage,
      BodyJson(Inputs(JStr(<<"a">>))),
      BodyJson(Inputs(JList(<<JStr(<<"a">>), JStr(<<"b">>), JInt(3)>>))),
      BodyJson(JList(<<JInt(3)>>)) }

BodiesOf(r) == IF r = 1 THEN Bodies ELSE BackgroundBodies

(* ------------------------------- state --------------------------------- *)

VARIABLES
    environ,        \* os.environ["EMBEDDING_DIM"]
    proc,           \* "starting", "serving" or "crashed"
    EMBEDDING_DIM,  \* the module global (meaningful once proc = "serving")
    globalRng,      \* state of the random module's hidden shared generator
    req             \* per request: the handler's position and locals

vars == <<environ, proc, EMBEDDING_DIM, globalRng, req>>

(* ------------------------------ the code ------------------------------- *)

\* Variant of get_json that ignores silent (the default, silent=False).
get_json_loud(body, silent) ==
    IF body.kind = "json" THEN [raised |-> "", val |-> body.val]
    ELSE [raised |-> "BadRequest", val |-> JNone]

\* request.get_json(force=True, silent=...): the decoded body; when the body
\* is missing or does not parse, None if silent and 400 Bad Request otherwise.
get_json(body, silent) ==
    IF body.kind = "json" THEN [raised |-> "", val |-> body.val]
    ELSE IF silent THEN [raised |-> "", val |-> JNone]
    ELSE [raised |-> "BadRequest", val |-> JNone]

\* x or {}
OrEmptyDict(v) == IF Truthy(v) THEN v ELSE JDict(<<>>)

\* payload.get("inputs", []): only a dict has .get
DictGet(payload, key, default) ==
    IF payload.t # "dict" THEN [raised |-> "AttributeError", val |-> JNone]
    ELSE IF \E i \in 1..Len(payload.ents) : payload.ents[i].k = key
    THEN [raised |-> "",
          val |-> payload.ents[CHOOSE i \in 1..Len(payload.ents) :
                                    payload.ents[i].k = key].v]
    ELSE [raised |-> "", val |-> default]

RECURSIVE OnlyStrings(_)
OnlyStrings(items) ==
    IF items = <<>> THEN <<>>
    ELSE IF Head(items).t = "str" THEN <<Head(items).s>> \o OnlyStrings(Tail(items))
    ELSE OnlyStrings(Tail(items))

\* Variant of normalize_inputs that keeps only the str members of a list.
normalize_inputs_strict(payload) ==
    LET got == DictGet(payload, <<"inputs">>, JList(<<>>))
        inputs == got.val
    IN  IF got.raised # "" THEN [raised |-> got.raised, val |-> <<>>]
        ELSE IF inputs.t = "str" THEN [raised |-> "", val |-> <<inputs.s>>]
        ELSE IF inputs.t # "list" THEN [raised |-> "", val |-> <<>>]
        ELSE [raised |-> "", val |-> OnlyStrings(inputs.items)]

normalize_inputs(payload) ==
    LET got == DictGet(payload, <<"inputs">>, JList(<<>>))
        inputs == got.val
    IN  IF got.raised # "" THEN [raised |-> got.raised, val |-> <<>>]
        ELSE IF inputs.t = "str" THEN [raised |-> "", val |-> <<inputs.s>>]
        ELSE IF inputs.t # "list" THEN [raised |-> "", val |-> <<>>]
        ELSE [raised |-> "",
              val |-> [i \in 1..Len(inputs.items) |-> str(inputs.items[i])]]

\* Variant of Sample that draws from [0.0, 2.0).
SampleShifted(st, i) ==
    uniform(FloatOf(0), FloatOf(2),
            RandomBitsOf(RngState(st.key, st.n + i - 1)))

\* rng.uniform(-1.0, 1.0) for the i-th draw of a generator in state st
Sample(st, i) ==
    uniform(FloatOf(-1), FloatOf(1),
            RandomBitsOf(RngState(st.key, st.n + i - 1)))

\* Variant of generate_embedding that draws from the random module's shared
\* generator (random.uniform) instead of the seeded private one.
generate_embedding_shared(text) ==
    LET enc == encode_utf8(text)
    IN  IF enc.raised # ""
        THEN [raised |-> enc.raised, vec |-> <<>>, global |-> globalRng]
        ELSE [raised |-> "",
              vec |-> [i \in 1..RangeLen(EMBEDDING_DIM) |-> Sample(globalRng, i)],
              global |-> RngState(globalRng.key,
                                  globalRng.n + RangeLen(EMBEDDING_DIM))]

generate_embedding(text) ==
    LET enc == encode_utf8(text)
        seed == sha256_int(enc.bytes)
        rng == Random(seed)
    IN  IF enc.raised # ""
        THEN [raised |-> enc.raised, vec |-> <<>>, global |-> globalRng]
        ELSE [raised |-> "",
              vec |-> [i \in 1..RangeLen(EMBEDDING_DIM) |-> Sample(rng, i)],
              global |-> globalRng]

(* ------------------------------ responses ------------------------------ *)

Response(status, kind, text, vectors, sparse) ==
    [status |-> status, kind |-> kind, text |-> text,
     vectors |-> vectors, sparse |-> sparse]

NoResponse == Response(0, "none", "", <<>>, <<>>)

\* Flask answers an exception that escapes a view with 500.
InternalServerError == Response(500, "error", "", <<>>, <<>>)

\* Flask answers a BadRequest raised by get_json with 400.
BadRequest == Response(400, "error", "", <<>>, <<>>)

\* [{"index": 0, "value": 0.0}]
EmptySparse == <<[index |-> 0, value |-> FloatOf(0)]>>

Idle ==
    [pc |-> "idle", route |-> "", body |-> BodyAbsent, payload |-> JNone,
     inputs |-> <<>>, embeddings |-> <<>>, raised |-> "", at |-> "",
     response |-> NoResponse]

\* The handler of request r ends: by returning resp, or by an exception
\* that escaped at step `at`.
Finish(r, resp, raised, at) ==
    req' = [req EXCEPT ![r].pc = "done", ![r].response = resp,
                       ![r].raised = raised, ![r].at = at]

(* ------------------------------- actions ------------------------------- *)

Init ==
    /\ environ \in EnvValues
    /\ proc = "starting"
    /\ EMBEDDING_DIM = 0
    /\ globalRng \in {RngState(1, 0), RngState(2, 0)}
    /\ req = [r \in Requests |-> Idle]

\* Module import: EMBEDDING_DIM = int(os.environ.get("EMBEDDING_DIM", "1024"))
Startup ==
    /\ proc = "starting"
    /\ LET dim == ParseInt(EnvGet(environ, IntToStr(DefaultDim)))
       IN  IF dim.raised # ""
           THEN /\ proc' = "crashed"
                /\ UNCHANGED EMBEDDING_DIM
           ELSE /\ proc' = "serving"
                /\ EMBEDDING_DIM' = dim.n
    /\ UNCHANGED <<environ, globalRng, req>>

\* A request arrives and is routed to its view function.
Receive(r) ==
    /\ proc = "serving"
    /\ req[r].pc \in {"idle", "done"}
    /\ \E route \in GetRoutes \cup PostRoutes :
         \E body \in IF route \in GetRoutes THEN {BodyAbsent} ELSE BodiesOf(r) :
            req' = [req EXCEPT ![r] =
                        [Idle EXCEPT !.pc = "view", !.route = route,
                                     !.body = body]]
    /\ UNCHANGED <<environ, proc, EMBEDDING_DIM, globalRng>>

\* health(): return "ok", 200
Health(r) ==
    /\ req[r].pc = "view" /\ req[r].route = "/health"
    /\ Finish(r, Response(200, "text", "ok", <<>>, <<>>), "", "")
    /\ UNCHANGED <<environ, proc, EMBEDDING_DIM, globalRng>>

\* info(): return jsonify({"model_id": "BAAI/bge-m3"})
Info(r) ==
    /\ req[r].pc = "view" /\ req[r].route = "/info"
    /\ Finish(r, Response(200, "model_id", "BAAI/bge-m3", <<>>, <<>>), "", "")
    /\ UNCHANGED <<environ, proc, EMBEDDING_DIM, globalRng>>

\* embed(), embed_sparse():
\*   payload = request.get_json(force=True, silent=True) or {}
GetPayload(r) ==
    /\ req[r].pc = "view" /\ req[r].route \in PostRoutes
    /\ LET got == get_json(req[r].body, TRUE)
       IN  IF got.raised # ""
           THEN Finish(r, BadRequest, got.raised, "get_json")
           ELSE req' = [req EXCEPT ![r].pc = "normalize",
                                   ![r].payload = OrEmptyDict(got.val)]
    /\ UNCHANGED <<environ, proc, EMBEDDING_DIM, globalRng>>

\* embed(), embed_sparse():  inputs = normalize_inputs(payload)
Normalize(r) ==
    /\ req[r].pc = "normalize"
    /\ LET res == normalize_inputs(req[r].payload)
       IN  IF res.raised # ""
           THEN Finish(r, InternalServerError, res.raised, "normalize_inputs")
           ELSE req' = [req EXCEPT
                          ![r].pc = IF req[r].route = "/embed" THEN "generate"
                                    ELSE "sparse",
                          ![r].inputs = res.val]
    /\ UNCHANGED <<environ, proc, EMBEDDING_DIM, globalRng>>

\* embed(): one iteration of
\*   embeddings = [generate_embedding(text) for text in inputs]
Generate(r) ==
    /\ req[r].pc = "generate"
    /\ Len(req[r].embeddings) < Len(req[r].inputs)
    /\ LET res == generate_embedding(req[r].inputs[Len(req[r].embeddings) + 1])
       IN  /\ IF res.raised # ""
              THEN Finish(r, InternalServerError, res.raised, "generate_embedding")
              ELSE req' = [req EXCEPT ![r].embeddings = Append(@, res.vec)]
           /\ globalRng' = res.global
    /\ UNCHANGED <<environ, proc, EMBEDDING_DIM>>

\* embed(): return jsonify(embeddings)
EmbedRespond(r) ==
    /\ req[r].pc = "generate"
    /\ Len(req[r].embeddings) = Len(req[r].inputs)
    /\ Finish(r, Response(200, "embeddings", "", req[r].embeddings, <<>>), "", "")
    /\ UNCHANGED <<environ, proc, EMBEDDING_DIM, globalRng>>

\* embed_sparse():
\*   empty_sparse = [[{"index": 0, "value": 0.0}] for _ in inputs]
\*   return jsonify(empty_sparse)
SparseRespond(r) ==
    /\ req[r].pc = "sparse"
    /\ Finish(r, Response(200, "sparse", "", <<>>,
                          [i \in 1..Len(req[r].inputs) |-> EmptySparse]), "", "")
    /\ UNCHANGED <<environ, proc, EMBEDDING_DIM, globalRng>>

Next ==
    \/ Startup
    \/ \E r \in Requests : Receive(r)
    \/ \E r \in Requests : Health(r)
    \/ \E r \in Requests : Info(r)
    \/ \E r \in Requests : GetPayload(r)
    \/ \E r \in Requests : Normalize(r)
    \/ \E r \in Requests : Generate(r)
    \/ \E r \in Requests : EmbedRespond(r)
    \/ \E r \in Requests : SparseRespond(r)

Spec == Init /\ [][Next]_vars

(* ------------------- the handlers as functions of a body --------------- *)

\* embed() run from its first line to its return on one request body.
embed(body) ==
    LET payload == OrEmptyDict(get_json(body, TRUE).val)
        norm == normalize_inputs(payload)
        calls == [i \in 1..Len(norm.val) |-> generate_embedding(norm.val[i])]
    IN  IF norm.raised # "" THEN InternalServerError
        ELSE IF \E i \in 1..Len(calls) : calls[i].raised # ""
        THEN InternalServerError
        ELSE Response(200, "embeddings", "",
                      [i \in 1..Len(calls) |-> calls[i].vec], <<>>)

\* embed_sparse() run from its first line to its return on one request body.
embed_sparse(body) ==
    LET payload == OrEmptyDict(get_json(body, TRUE).val)
        norm == normalize_inputs(payload)
    IN  IF norm.raised # "" THEN InternalServerError
        ELSE Response(200, "sparse", "", <<>>,
                      [i \in 1..Len(norm.val) |-> EmptySparse])

(* ------------------------------- claims -------------------------------- *)

Done(r) == req[r].pc = "done"

\* Normalize has acted on request r and returned a list.
Normalized(r) ==
    /\ req[r].route \in PostRoutes
    /\ \/ req[r].pc \in {"generate", "sparse"}
       \/ Done(r) /\ req[r].at \notin {"get_json", "normalize_inputs"}

\* The generate_embedding calls whose outcome the state still records.
Calls ==
    UNION { {[text |-> req[r].inputs[i], raised |-> "",
              vec |-> req[r].embeddings[i]] : i \in 1..Len(req[r].embeddings)}
            \cup (IF Done(r) /\ req[r].at = "generate_embedding"
                  THEN {[text |-> req[r].inputs[Len(req[r].embeddings) + 1],
                         raised |-> req[r].raised, vec |-> <<>>]}
                  ELSE {})
          : r \in Requests }

\* C1: for every body handled by POST /embed or POST /embed_sparse, input
\* normalization yields a list of strings and never ends in an exception.
C1_NormalizationNeverRaises ==
    \A r \in Requests :
        (req[r].route \in PostRoutes /\ Done(r))
            => /\ req[r].at \notin {"get_json", "normalize_inputs"}
               /\ Normalized(r)

\* The text that a member of the `inputs` list must become.
C2_TextOf(item) ==
    CASE item.t = "str" -> item.s
      [] item.t = "int" -> IntToStr(item.n)
      [] item.t = "bool" -> IF item.b THEN <<"T", "r", "u", "e">>
                                       ELSE <<"F", "a", "l", "s", "e">>
      [] item.t = "NoneType" -> <<"N", "o", "n", "e">>
      [] OTHER -> repr(item)

C2_Expected(payload) ==
    LET has == \E i \in 1..Len(payload.ents) : payload.ents[i].k = <<"inputs">>
        v == payload.ents[CHOOSE i \in 1..Len(payload.ents) :
                              payload.ents[i].k = <<"inputs">>].v
    IN  IF ~has THEN <<>>
        ELSE IF v.t = "str" THEN <<v.s>>
        ELSE IF v.t = "list" THEN [i \in 1..Len(v.items) |-> C2_TextOf(v.items[i])]
        ELSE <<>>

\* C2: on an object payload normalize_inputs returns [] when `inputs` is
\* absent, [v] when it is the string v, the list of the members' textual
\* forms (same length, same order) when it is a list, and [] otherwise.
C2_NormalizeObject ==
    \A r \in Requests :
        (req[r].route \in PostRoutes /\ req[r].payload.t = "dict"
            /\ req[r].pc \in {"generate", "sparse", "done"})
            => /\ Normalized(r)
               /\ req[r].inputs = C2_Expected(req[r].payload)

C2_Witness ==
    \E r \in Requests :
        /\ Normalized(r)
        /\ req[r].payload =
               Inputs(JList(<<JBool(TRUE), JNone, JList(<<JStr(<<SURR>>)>>),
                              JDict(<<Ent(<<"a">>, JInt(-1))>>)>>))
        /\ Len(req[r].inputs) = 4
        /\ req[r].inputs[1] = <<"T", "r", "u", "e">>

\* C3: for every request to POST /embed the response list has as many
\* entries as the normalized input list, and its i-th entry is the vector
\* the generator produces for the i-th normalized string.
C3_EmbedResponseMatchesInputs ==
    \A r \in Requests :
        (req[r].route = "/embed" /\ Done(r))
            => /\ Normalized(r)
               /\ req[r].response.status = 200
               /\ req[r].response.kind = "embeddings"
               /\ Len(req[r].response.vectors) = Len(req[r].inputs)
               /\ \A i \in 1..Len(req[r].inputs) :
                     /\ generate_embedding(req[r].inputs[i]).raised = ""
                     /\ req[r].response.vectors[i]
                            = generate_embedding(req[r].inputs[i]).vec

\* C4: any two calls of generate_embedding on the same text have the same
\* outcome, whatever calls happened before or between them.
C4_SameTextSameVector ==
    \A c1, c2 \in Calls : c1.text = c2.text => c1 = c2

C4_Witness ==
    /\ EMBEDDING_DIM = MaxDim
    /\ req[1].inputs = <<<<"a">>, <<EACUTE>>, <<"a">>>>
    /\ Len(req[1].embeddings) = 3
    /\ Done(2)
    /\ req[2].inputs = <<<<"a">>, <<"b">>, <<"3">>>>
    /\ Len(req[2].embeddings) = 3
    /\ req[1].embeddings[1] # req[1].embeddings[2]

\* C5: for every text and every dimension D the process runs with,
\* generate_embedding returns a vector of exactly D components.
C5_VectorHasDimComponents ==
    \A c \in Calls : c.raised = "" => Len(c.vec) = EMBEDDING_DIM

\* C6: the process never serves a request with an invalid EMBEDDING_DIM:
\* whenever /embed is handling a request, EMBEDDING_DIM is a non-negative
\* integer.
C6_ServesOnlyValidDim ==
    \A r \in Requests :
        (req[r].route = "/embed" /\ req[r].pc # "idle") => EMBEDDING_DIM >= 0

\* C7: a POST /embed or /embed_sparse request whose body is missing or is
\* not JSON is answered with status 200 and an empty result list.
C7_BadBodyGivesEmptyList ==
    \A r \in Requests :
        (req[r].route \in PostRoutes /\ Done(r)
            /\ req[r].body.kind \in {"absent", "garbage"})
            => /\ req[r].response.status = 200
               /\ req[r].raised = ""
               /\ req[r].response.kind
                      = (IF req[r].route = "/embed" THEN "embeddings" ELSE "sparse")
               /\ req[r].response.vectors = <<>>
               /\ req[r].response.sparse = <<>>

C7_Witness ==
    /\ Done(1) /\ req[1].route = "/embed" /\ req[1].body = BodyAbsent
    /\ req[1].response.status = 200
    /\ Done(2) /\ req[2].route = "/embed_sparse" /\ req[2].body = BodyGarbage
    /\ req[2].response.status = 200

\* C8: for every request to POST /embed_sparse the response holds one entry
\* per normalized input, each the placeholder [{index: 0, value: 0.0}].
C8_SparseIsPlaceholderPerInput ==
    \A r \in Requests :
        (req[r].route = "/embed_sparse" /\ Done(r))
            => /\ Normalized(r)
               /\ req[r].response.status = 200
               /\ req[r].response.kind = "sparse"
               /\ Len(req[r].response.sparse) = Len(req[r].inputs)
               /\ \A i \in 1..Len(req[r].inputs) :
                     req[r].response.sparse[i] = <<[index |-> 0, value |-> 0]>>

\* C9: every component of a vector that generate_embedding returns lies in
\* the closed interval [-1.0, 1.0].
C9_ComponentsInRange ==
    \A c \in Calls :
        \A j \in 1..Len(c.vec) : -Scale <= c.vec[j] /\ c.vec[j] <= Scale

C9_Witness ==
    /\ EMBEDDING_DIM = DefaultDim
    /\ \E c \in Calls :
          /\ Len(c.vec) = DefaultDim
          /\ \E j \in 1..Len(c.vec) : c.vec[j] < 0
          /\ \E j \in 1..Len(c.vec) : c.vec[j] > 0

\* The response of a request when nothing else runs beside it.
AloneResponse(route, body) ==
    CASE route = "/health" -> Response(200, "text", "ok", <<>>, <<>>)
      [] route = "/info" -> Response(200, "model_id", "BAAI/bge-m3", <<>>, <<>>)
      [] route = "/embed" -> embed(body)
      [] route = "/embed_sparse" -> embed_sparse(body)

\* C10: under any interleaving of the handlers, no step of a handler
\* changes the process-wide configuration or state shared between requests
\* or another request's locals, and every response equals the response the
\* same request gets when handled alone.
C10_HandlersDoNotInterfere ==
    /\ [](\A r \in Requests :
            Done(r) => req[r].response = AloneResponse(req[r].route, req[r].body))
    /\ [][proc = "serving" =>
            /\ EMBEDDING_DIM' = EMBEDDING_DIM
            /\ environ' = environ
            /\ globalRng' = globalRng
            /\ proc' = proc
            /\ Cardinality({r \in Requests : req'[r] # req[r]}) <= 1]_vars

C10_Witness ==
    /\ EMBEDDING_DIM = MaxDim
    /\ \A r \in Requests :
          /\ req[r].pc = "generate"
          /\ Len(req[r].inputs) = 3
          /\ Len(req[r].embeddings) \in {1, 2}

====
